---- MODULE Spec2Model ----
(***************************************************************************)
(* A model of the AETHERIS dashboard's telemetry core: the fleet state     *)
(* store (use-telemetry), its topic router (processMessage), the MQTT      *)
(* connection hook (use-mqtt) and the provider that wires them             *)
(* (mqtt-provider.tsx).                                                    *)
(*                                                                         *)
(* Encoding.  A JSON object is a TLA+ record; a field the object lacks is  *)
(* a field outside the record's DOMAIN.  JavaScript's undefined is the     *)
(* record Undefined, JSON null the record JsonNull.  A topic string is the *)
(* tuple of its "/"-separated segments.  A raw payload string is either    *)
(* text that is not JSON or the text of one JSON value.                      *)
(***************************************************************************)
EXTENDS Integers, Sequences, FiniteSets, TLC

VARIABLES
    store,              \* the zustand store: useTelemetryStore's state
    mounted,            \* whether MqttProvider (and its useMqtt) is mounted
    clientRef,          \* useMqtt: clientRef.current (0 = null, else a client number)
    status,             \* useMqtt: the `status` binding of the latest render
    pendingStatus,      \* useMqtt: the value of the status state hook (latest setStatus)
    reconnectAttempts,  \* useMqtt: reconnectAttempts.current
    brokerUrl,          \* useMqtt: the brokerUrl the connect effect last ran with
    instance,           \* which mount of the provider this is (0 before the first)
    clients,            \* the transport: one record per client mqtt.connect returned
    published,          \* the transport: the publish calls that reached a client
    escaped,            \* whether the latest call raised an exception to its caller
    last,               \* history: the latest call or event
    applied,            \* history: per robot key, the state updateRobot was last applied with
    fed,                \* history: how many alerts of the run A1, A2, ... were fed
    nOps                \* history: calls made so far (bounds the run)

vars == <<store, mounted, clientRef, status, pendingStatus, reconnectAttempts,
          brokerUrl, instance, clients, published, escaped, last, applied, fed, nOps>>

storeVars == <<store, applied, fed>>
mqttVars == <<mounted, clientRef, status, pendingStatus, reconnectAttempts,
              brokerUrl, instance, clients, published>>

----------------------------------------------------------------------------
(* Bounds of the model *)

MaxOps == 3
MaxFeed == 52
MaxDismiss == 1
MaxClients == 2
MaxPublish == 1

----------------------------------------------------------------------------
(* JavaScript values *)

Undefined == [isUndefined |-> TRUE]
JsonNull == [isNull |-> TRUE]
EmptyMap == [k \in {} |-> 0]

Has(obj, f) == f \in DOMAIN obj

\* obj.f : the field's value, or undefined when the object has no such field
Field(obj, f) == IF Has(obj, f) THEN obj[f] ELSE Undefined

\* undefined where a number is read (a timestamp the object lacks)
NoNumber == -1

NumField(obj, f) == IF Has(obj, f) THEN obj[f] ELSE NoNumber

\* the property key of a computed member { [obj.f]: v } : undefined becomes
\* the string "undefined"
KeyField(obj, f) == IF Has(obj, f) THEN obj[f] ELSE "undefined"

\* { ...m, [k]: v }
Put(m, k, v) == [x \in (DOMAIN m) \cup {k} |-> IF x = k THEN v ELSE m[x]]

\* const { [k]: _, ...rest } = m
Without(m, k) == [x \in (DOMAIN m) \ {k} |-> m[x]]

\* xs.slice(0, n)
Slice0(xs, n) == SubSeq(xs, 1, IF Len(xs) < n THEN Len(xs) ELSE n)

\* how a call ends: the store it leaves, whether it threw, whether it
\* reported an error with console.error
Ok(s) == [store |-> s, threw |-> FALSE, logged |-> FALSE]
Throw(s) == [store |-> s, threw |-> TRUE, logged |-> FALSE]

----------------------------------------------------------------------------
(* The store: use-telemetry *)

AlertCap == 50

InitStore ==
    [connectionStatus |-> "disconnected",
     robots |-> EmptyMap,
     alerts |-> <<>>,
     environment |-> EmptyMap,
     lastHeartbeat |-> EmptyMap,
     selectedRobotId |-> "null"]

\* a variant that forgets the fleet when the connection is in error
setConnectionStatus_clearing(s, st) ==
    Ok([s EXCEPT !.connectionStatus = st,
                 !.robots = IF st = "error" THEN EmptyMap ELSE @])

setConnectionStatus(s, st) == Ok([s EXCEPT !.connectionStatus = st])

\* a variant that merges the new state into the entry it finds
Merged(old, new) ==
    [f \in (DOMAIN old) \cup (DOMAIN new) |-> IF f \in DOMAIN new THEN new[f] ELSE old[f]]

updateRobot_merge(s, state) ==
    IF state = Undefined \/ state = JsonNull
    THEN Throw(s)
    ELSE LET k == KeyField(state, "id") IN
         Ok([s EXCEPT !.robots =
                Put(s.robots, k, IF k \in DOMAIN s.robots THEN Merged(s.robots[k], state)
                                 ELSE state)])

\* a variant that keeps the stored entry when its timestamp is the later one
updateRobot_newest(s, state) ==
    IF state = Undefined \/ state = JsonNull
    THEN Throw(s)
    ELSE IF /\ KeyField(state, "id") \in DOMAIN s.robots
            /\ NumField(s.robots[KeyField(state, "id")], "timestamp")
                   > NumField(state, "timestamp")
         THEN Ok(s)
         ELSE Ok([s EXCEPT !.robots = Put(s.robots, KeyField(state, "id"), state)])

\* state.id is read inside the set callback: undefined.id is a TypeError
updateRobot(s, state) ==
    IF state = Undefined \/ state = JsonNull
    THEN Throw(s)
    ELSE Ok([s EXCEPT !.robots = Put(s.robots, KeyField(state, "id"), state)])

removeRobot(s, id) == Ok([s EXCEPT !.robots = Without(s.robots, id)])

\* a variant that appends: [...prev.alerts, alert].slice(0, 50)
addAlert_append(s, alert) ==
    Ok([s EXCEPT !.alerts = Slice0(s.alerts \o <<alert>>, AlertCap)])

addAlert(s, alert) ==
    Ok([s EXCEPT !.alerts = Slice0(<<alert>> \o s.alerts, AlertCap)])

\* a.id on an undefined (or null) entry is a TypeError
BadEntry(a) == a = Undefined \/ a = JsonNull

IdIs(a, id) == Has(a, "id") /\ a.id = id

dismissAlert(s, id) ==
    IF \E i \in 1..Len(s.alerts) : BadEntry(s.alerts[i])
    THEN Throw(s)
    ELSE Ok([s EXCEPT !.alerts = SelectSeq(s.alerts, LAMBDA a : ~IdIs(a, id))])

\* { ...a, acknowledged: true }
Acked(a) == [f \in (DOMAIN a) \cup {"acknowledged"} |->
                IF f = "acknowledged" THEN TRUE ELSE a[f]]

acknowledgeAlert(s, id) ==
    IF \E i \in 1..Len(s.alerts) : BadEntry(s.alerts[i])
    THEN Throw(s)
    ELSE Ok([s EXCEPT !.alerts =
                [i \in 1..Len(s.alerts) |->
                    IF IdIs(s.alerts[i], id) THEN Acked(s.alerts[i]) ELSE s.alerts[i]]])

updateEnvironment(s, env) ==
    IF env = Undefined \/ env = JsonNull
    THEN Throw(s)
    ELSE Ok([s EXCEPT !.environment =
                Put(s.environment, KeyField(env, "section_id"), env)])

\* a variant that forgets the spread: { lastHeartbeat: { [robotId]: timestamp } }
updateHeartbeat_nospread(s, robotKey, timestamp) ==
    Ok([s EXCEPT !.lastHeartbeat = Put(EmptyMap, robotKey, timestamp)])

updateHeartbeat(s, robotKey, timestamp) ==
    Ok([s EXCEPT !.lastHeartbeat = Put(s.lastHeartbeat, robotKey, timestamp)])

setSelectedRobotId(s, id) == Ok([s EXCEPT !.selectedRobotId = id])

----------------------------------------------------------------------------
(* The router: processMessage *)

\* JSON.parse: a value, or a SyntaxError
JSONparse(payload) ==
    IF payload.json THEN [ok |-> TRUE, value |-> payload.data] ELSE [ok |-> FALSE]

\* topic.startsWith("aetheris/<kind>/")
StartsWith(topic, kind) ==
    Len(topic) >= 3 /\ topic[1] = "aetheris" /\ topic[2] = kind

\* a variant that reads the heartbeat from an envelope, like the other kinds
Dispatch_envelopedHeartbeat(s, topic, data) ==
    IF StartsWith(topic, "telemetry")
    THEN IF data = JsonNull THEN Throw(s) ELSE updateRobot(s, Field(data, "payload"))
    ELSE IF StartsWith(topic, "heartbeat")
    THEN IF data = JsonNull \/ ~Has(data, "payload") THEN Throw(s)
         ELSE updateHeartbeat(s, KeyField(data.payload, "robot_id"),
                              NumField(data.payload, "timestamp"))
    ELSE IF topic = <<"aetheris", "alerts">>
    THEN IF data = JsonNull THEN Throw(s) ELSE addAlert(s, Field(data, "payload"))
    ELSE IF StartsWith(topic, "environment")
    THEN IF data = JsonNull THEN Throw(s) ELSE updateEnvironment(s, Field(data, "payload"))
    ELSE Ok(s)

\* the body of the try block, for parsed data; reading a property of null throws
Dispatch(s, topic, data) ==
    IF StartsWith(topic, "telemetry")
    THEN IF data = JsonNull THEN Throw(s) ELSE updateRobot(s, Field(data, "payload"))
    ELSE IF StartsWith(topic, "heartbeat")
    THEN IF data = JsonNull THEN Throw(s)
         ELSE updateHeartbeat(s, KeyField(data, "robot_id"), NumField(data, "timestamp"))
    ELSE IF topic = <<"aetheris", "alerts">>
    THEN IF data = JsonNull THEN Throw(s) ELSE addAlert(s, Field(data, "payload"))
    ELSE IF StartsWith(topic, "environment")
    THEN IF data = JsonNull THEN Throw(s) ELSE updateEnvironment(s, Field(data, "payload"))
    ELSE Ok(s)

\* a variant of the catch that forgets the fleet when a message fails
Caught_forget(r) ==
    [store |-> IF r.threw THEN [r.store EXCEPT !.robots = EmptyMap] ELSE r.store,
     threw |-> FALSE, logged |-> r.threw]

\* catch (err) { console.error(...) } : what was thrown is reported, nothing
\* is rethrown
Caught(r) == [store |-> r.store, threw |-> FALSE, logged |-> r.threw]

\* a variant without the try/catch
processMessage_nocatch(s, topic, payload) ==
    LET parsed == JSONparse(payload) IN
    IF ~parsed.ok THEN Throw(s) ELSE Dispatch(s, topic, parsed.value)

processMessage(s, topic, payload) ==
    LET parsed == JSONparse(payload) IN
    IF ~parsed.ok THEN Caught(Throw(s)) ELSE Caught(Dispatch(s, topic, parsed.value))

----------------------------------------------------------------------------
(* The connection hook: use-mqtt *)

DEFAULT_BROKER_URL == "ws://localhost:9001"
maxReconnectAttempts == 10

TELEMETRY_ALL == <<"aetheris", "telemetry", "+">>
HEARTBEAT_ALL == <<"aetheris", "heartbeat", "+">>
ENVIRONMENT_ALL == <<"aetheris", "environment", "+">>
DEFAULT_TOPICS == {TELEMETRY_ALL, HEARTBEAT_ALL, <<"aetheris", "alerts">>}

\* the client mqtt.connect returns: not ended, subscribed to nothing
NewClient(inst) == [inst |-> inst, ended |-> FALSE, closed |-> FALSE, subscribed |-> {}]

\* a variant of end() that leaves the client running
End_keep(client) == client

\* client.end(): the connection is given up, and with it the clean session's
\* subscriptions
End(client) == [client EXCEPT !.ended = TRUE, !.subscribed = {}]

\* the connect effect: nothing when a client exists, else status connecting
\* and a new client in clientRef
ConnectEffect(ref, cs, pending, inst) ==
    IF ref # 0
    THEN [clientRef |-> ref, clients |-> cs, pendingStatus |-> pending]
    ELSE [clientRef |-> Len(cs) + 1,
          clients |-> Append(cs, NewClient(inst)),
          pendingStatus |-> "connecting"]

\* a variant of the cleanup that drops the reference without ending the client
Cleanup_noend(ref, cs) == [clientRef |-> 0, clients |-> cs]

\* the effect's cleanup: clientRef.current.end(), clientRef.current = null
Cleanup(ref, cs) ==
    [clientRef |-> 0,
     clients |-> IF ref # 0 THEN [cs EXCEPT ![ref] = End(@)] ELSE cs]

\* a variant of publish that checks the client only
publish_nostatus(ref, st, pub, topic) ==
    IF ref = 0 THEN pub ELSE Append(pub, topic)

\* publish: a warning and nothing else unless a client exists and the
\* rendered status is connected
publish(ref, st, pub, topic) ==
    IF ref = 0 \/ st # "connected"
    THEN pub
    ELSE Append(pub, topic)

\* a variant of the connect handler that subscribes at QoS 0
Subscribe_qos0(subs, topics) == subs \cup {[filter |-> t, qos |-> 0] : t \in topics}

\* topics.forEach(topic => client.subscribe(topic, { qos: 1 })): the client's
\* subscriptions are a set, one per filter and QoS
Subscribe(subs, topics) == subs \cup {[filter |-> t, qos |-> 1] : t \in topics}

\* a variant of the reconnect handler that never gives up
LimitReached_never(attempts) == FALSE

\* reconnectAttempts.current >= maxReconnectAttempts
LimitReached(attempts) == attempts >= maxReconnectAttempts

\* a variant of the connect handler that keeps the attempt counter
AfterConnect_keep(attempts) == attempts

\* reconnectAttempts.current = 0
AfterConnect(attempts) == 0

----------------------------------------------------------------------------
(* The inputs: topics, payloads and the arguments of direct calls *)

RobotIds == {"RV-001", "DR-002"}
SectionIds == {"PIPE-A1"}

telemetry(robotId) == <<"aetheris", "telemetry", robotId>>
heartbeat(robotId) == <<"aetheris", "heartbeat", robotId>>
ALERTS == <<"aetheris", "alerts">>
environmentTopic(sectionId) == <<"aetheris", "environment", sectionId>>
responses(robotId) == <<"aetheris", "responses", robotId>>
SYSTEM_STATUS == <<"aetheris", "system", "status">>
commands(robotId) == <<"aetheris", "commands", robotId>>
COMMANDS_BROADCAST == <<"aetheris", "commands", "broadcast">>

Topics ==
    {telemetry(id) : id \in RobotIds} \cup {heartbeat(id) : id \in RobotIds}
    \cup {ALERTS} \cup {environmentTopic(sec) : sec \in SectionIds}
    \cup {responses("RV-001"), SYSTEM_STATUS}

\* the kind of message a producer publishes on a topic (MQTT_TOPICS)
KindOf(topic) ==
    IF \E id \in RobotIds : topic = telemetry(id) THEN "telemetry"
    ELSE IF \E id \in RobotIds : topic = heartbeat(id) THEN "heartbeat"
    ELSE IF topic = ALERTS THEN "alert"
    ELSE IF \E sec \in SectionIds : topic = environmentTopic(sec) THEN "environment"
    ELSE "other"

RobotState(id, battery, timestamp) ==
    [id |-> id, battery |-> battery, timestamp |-> timestamp]

RobotStates ==
    {RobotState("RV-001", 87, 2000), RobotState("RV-001", 20, 1000),
     RobotState("DR-002", 55, 2000)}

\* the ids of the alerts A1, A2, ... in the order their producer reports them
AlertName ==
    <<"A1", "A2", "A3", "A4", "A5", "A6", "A7", "A8", "A9", "A10", "A11",
      "A12", "A13", "A14", "A15", "A16", "A17", "A18", "A19", "A20", "A21",
      "A22", "A23", "A24", "A25", "A26", "A27", "A28", "A29", "A30", "A31",
      "A32", "A33", "A34", "A35", "A36", "A37", "A38", "A39", "A40", "A41",
      "A42", "A43", "A44", "A45", "A46", "A47", "A48", "A49", "A50", "A51",
      "A52", "A53", "A54", "A55", "A56", "A57", "A58", "A59", "A60">>

\* the n-th alert its producer reports
AnomalyReport(n, acknowledged) ==
    [id |-> AlertName[n], timestamp |-> n, severity |-> "high",
     acknowledged |-> acknowledged]

AlertIds == {AlertName[1], AlertName[2]}
AnomalyReports == {AnomalyReport(1, FALSE), AnomalyReport(2, FALSE), AnomalyReport(1, TRUE)}

PipeEnvironment(sectionId, pressure) == [section_id |-> sectionId, pressure |-> pressure]

PipeEnvironments == {PipeEnvironment("PIPE-A1", 50), PipeEnvironment("PIPE-A1", 120)}

Heartbeat(robotId, timestamp) == [robot_id |-> robotId, timestamp |-> timestamp]

Heartbeats == {Heartbeat("RV-001", 5000), Heartbeat("RV-001", 1000), Heartbeat("DR-002", 1000)}

\* MqttMessage<T>
MqttMessage(payload) == [payload |-> payload, seq |-> 1]

\* JSON objects that parse but do not have the shape of their kind
NoPayload == [seq |-> 1]
RobotNoId == [battery |-> 87]
RobotIdOnly == [id |-> "RV-001"]
AlertNoId == [severity |-> "high"]
EnvNoSection == [pressure |-> 50]
HeartbeatNoRobot == [timestamp |-> 1000]

NotJson == [json |-> FALSE]
Json(data) == [json |-> TRUE, data |-> data]

\* the payloads tried on the topics of each kind: text that is not JSON, JSON
\* of another shape, and the kind's own messages, well-formed and not
PayloadsOf(kind) ==
    {NotJson, Json(JsonNull), Json(NoPayload)} \cup
    CASE kind = "telemetry" ->
            {Json(MqttMessage(p)) : p \in RobotStates \cup {RobotNoId, RobotIdOnly}}
      [] kind = "heartbeat" ->
            {Json(hb) : hb \in Heartbeats \cup {HeartbeatNoRobot}}
      [] kind = "alert" ->
            {Json(MqttMessage(p)) : p \in AnomalyReports \cup {AlertNoId}}
      [] kind = "environment" ->
            {Json(MqttMessage(p)) : p \in PipeEnvironments \cup {EnvNoSection}}
      [] OTHER ->
            {Json(MqttMessage(RobotState("RV-001", 87, 2000))),
             Json(Heartbeat("RV-001", 5000))}

\* a message a producer of the fleet publishes: the payload has the shape
\* of the topic's kind
WellFormed(topic, payload) ==
    /\ payload.json
    /\ \/ KindOf(topic) = "telemetry" /\ \E r \in RobotStates : payload.data = MqttMessage(r)
       \/ KindOf(topic) = "heartbeat" /\ payload.data \in Heartbeats
       \/ KindOf(topic) = "alert" /\ \E a \in AnomalyReports : payload.data = MqttMessage(a)
       \/ KindOf(topic) = "environment"
            /\ \E e \in PipeEnvironments : payload.data = MqttMessage(e)

\* what a message is, seen from its topic's kind
ShapeOf(topic, payload) ==
    IF ~payload.json THEN "notjson"
    ELSE IF WellFormed(topic, payload) THEN "wellformed"
    ELSE "misshapen"

\* the kinds of topic processMessage tells apart, and the messages of each
Kinds == {"telemetry", "heartbeat", "alert", "environment", "other"}

MessagesOfKind ==
    [k \in Kinds |->
        {<<t, p>> : t \in {u \in Topics : KindOf(u) = k}, p \in PayloadsOf(k)}]

ConnectionStatuses == {"connecting", "connected", "disconnected", "error"}

----------------------------------------------------------------------------
(* The initial state: the store as created, the provider not yet mounted *)

Init ==
    /\ store = InitStore
    /\ mounted = FALSE
    /\ clientRef = 0
    /\ status = "disconnected"
    /\ pendingStatus = "disconnected"
    /\ reconnectAttempts = 0
    /\ brokerUrl = DEFAULT_BROKER_URL
    /\ instance = 0
    /\ clients = <<>>
    /\ published = <<>>
    /\ escaped = FALSE
    /\ last = [op |-> "init"]
    /\ applied = EmptyMap
    /\ fed = 0
    /\ nOps = 0

----------------------------------------------------------------------------
(* Calls on the store *)

\* the call's result becomes the state; an exception leaves the store as it was
Apply(r, l) ==
    /\ store' = r.store
    /\ escaped' = r.threw
    /\ last' = l
    /\ nOps' = nOps + 1

\* the state a telemetry message hands to updateRobot, when it hands one
IsObject(v) == v # Undefined /\ v # JsonNull

AppliedBy(topic, payload) ==
    IF /\ KindOf(topic) = "telemetry"
       /\ payload.json
       /\ IsObject(payload.data)
       /\ IsObject(Field(payload.data, "payload"))
    THEN Put(applied, KeyField(payload.data.payload, "id"), payload.data.payload)
    ELSE applied

\* whether the store holds, under the key, an entry other than the state
Overwrites(state) ==
    /\ KeyField(state, "id") \in DOMAIN store.robots
    /\ store.robots[KeyField(state, "id")] # state

UpdateRobot(state) ==
    /\ nOps < MaxOps
    /\ Apply(updateRobot(store, state),
             [op |-> "updateRobot", state |-> state, over |-> Overwrites(state)])
    /\ applied' = Put(applied, state.id, state)
    /\ UNCHANGED <<mqttVars, fed>>

RemoveRobot(id) ==
    /\ nOps < MaxOps
    /\ Apply(removeRobot(store, id), [op |-> "removeRobot", id |-> id])
    /\ applied' = Without(applied, id)
    /\ UNCHANGED <<mqttVars, fed>>

AddAlert(alert) ==
    /\ nOps < MaxOps
    /\ Apply(addAlert(store, alert), [op |-> "addAlert", alert |-> alert])
    /\ UNCHANGED <<mqttVars, applied, fed>>

DismissAlert(id) ==
    /\ nOps < MaxOps
    /\ Apply(dismissAlert(store, id), [op |-> "dismissAlert", id |-> id])
    /\ UNCHANGED <<mqttVars, applied, fed>>

AcknowledgeAlert(id) ==
    /\ nOps < MaxOps
    /\ Apply(acknowledgeAlert(store, id), [op |-> "acknowledgeAlert", id |-> id])
    /\ UNCHANGED <<mqttVars, applied, fed>>

UpdateEnvironment(env) ==
    /\ nOps < MaxOps
    /\ Apply(updateEnvironment(store, env), [op |-> "updateEnvironment", env |-> env])
    /\ UNCHANGED <<mqttVars, applied, fed>>

UpdateHeartbeat(robotId, timestamp) ==
    /\ nOps < MaxOps
    /\ Apply(updateHeartbeat(store, robotId, timestamp),
             [op |-> "updateHeartbeat", id |-> robotId, timestamp |-> timestamp])
    /\ UNCHANGED <<mqttVars, applied, fed>>

SetConnectionStatus(st) ==
    /\ nOps < MaxOps
    /\ Apply(setConnectionStatus(store, st), [op |-> "setConnectionStatus", status |-> st])
    /\ UNCHANGED <<mqttVars, applied, fed>>

SetSelectedRobotId(id) ==
    /\ nOps < MaxOps
    /\ Apply(setSelectedRobotId(store, id), [op |-> "setSelectedRobotId", id |-> id])
    /\ UNCHANGED <<mqttVars, applied, fed>>

\* whether the store holds, under the key, an entry with a later timestamp
Older(state) ==
    /\ KeyField(state, "id") \in DOMAIN store.robots
    /\ NumField(store.robots[KeyField(state, "id")], "timestamp") > state.timestamp

ProcessMessage(topic, payload) ==
    /\ nOps < MaxOps
    /\ Apply(processMessage(store, topic, payload),
             [op |-> "processMessage", kind |-> KindOf(topic),
              shape |-> ShapeOf(topic, payload),
              logged |-> processMessage(store, topic, payload).logged,
              older |-> /\ WellFormed(topic, payload)
                        /\ KindOf(topic) = "telemetry"
                        /\ Older(payload.data.payload),
              over |-> /\ WellFormed(topic, payload)
                       /\ KindOf(topic) = "telemetry"
                       /\ Overwrites(payload.data.payload)])
    /\ applied' = AppliedBy(topic, payload)
    /\ UNCHANGED <<mqttVars, fed>>

NextStore ==
    \/ \E state \in RobotStates : UpdateRobot(state)
    \/ \E id \in RobotIds : RemoveRobot(id)
    \/ \E alert \in AnomalyReports : AddAlert(alert)
    \/ \E id \in AlertIds : DismissAlert(id)
    \/ \E id \in AlertIds : AcknowledgeAlert(id)
    \/ \E env \in PipeEnvironments : UpdateEnvironment(env)
    \/ \E hb \in Heartbeats : UpdateHeartbeat(hb.robot_id, hb.timestamp)
    \/ \E st \in {"connected", "error"} : SetConnectionStatus(st)
    \/ \E id \in {"RV-001", "null"} : SetSelectedRobotId(id)
    \/ \E topic \in Topics :
          \E payload \in PayloadsOf(KindOf(topic)) : ProcessMessage(topic, payload)

SpecStore == Init /\ [][NextStore]_vars

----------------------------------------------------------------------------
(* The provider and the hook: mount, render, transport events, commands *)

BrokerUrls == {DEFAULT_BROKER_URL, "ws://broker:9001"}

\* the messages the broker delivers in this specification
Deliveries ==
    {<<telemetry("RV-001"), Json(MqttMessage(RobotState("RV-001", 87, 2000)))>>,
     <<ALERTS, NotJson>>,
     <<telemetry("RV-001"), Json(NoPayload)>>,
     <<environmentTopic("PIPE-A1"), Json(MqttMessage(PipeEnvironment("PIPE-A1", 50)))>>}

\* an MQTT topic filter matches a topic: "+" stands for one segment
Matches(filter, topic) ==
    /\ Len(filter) = Len(topic)
    /\ \A i \in 1..Len(filter) : filter[i] = "+" \/ filter[i] = topic[i]

Live(c) == c \in 1..Len(clients) /\ ~clients[c].ended

\* a variant of the provider's callback that leaves the store alone
handleDisconnect_noop(s) == Ok(s)

\* handleDisconnect: setConnectionStatus("disconnected")
handleDisconnect(s) == setConnectionStatus(s, "disconnected")

\* setStatus from a handler of client c: the state of the instance that made
\* the client; React drops it when that instance is unmounted
SetStatus(c, st) ==
    IF mounted /\ clients[c].inst = instance THEN st ELSE pendingStatus

\* first render (status disconnected), then the effects: the connect effect
\* and the provider's sync of the rendered status to the store
Mount ==
    /\ ~mounted
    /\ Len(clients) < MaxClients
    /\ mounted' = TRUE
    /\ instance' = instance + 1
    /\ status' = "disconnected"
    /\ reconnectAttempts' = 0
    /\ LET e == ConnectEffect(0, clients, "disconnected", instance + 1)
       IN /\ clientRef' = e.clientRef
          /\ clients' = e.clients
          /\ pendingStatus' = e.pendingStatus
    /\ store' = setConnectionStatus(store, "disconnected").store
    /\ escaped' = FALSE
    /\ last' = [op |-> "mount"]
    /\ UNCHANGED <<brokerUrl, published, applied, fed, nOps>>

\* unmount: the cleanup runs and the instance's state is gone
Unmount ==
    /\ mounted
    /\ mounted' = FALSE
    /\ LET u == Cleanup(clientRef, clients)
       IN /\ clientRef' = u.clientRef
          /\ clients' = u.clients
    /\ status' = "disconnected"
    /\ pendingStatus' = "disconnected"
    /\ reconnectAttempts' = 0
    /\ brokerUrl' = DEFAULT_BROKER_URL
    /\ escaped' = FALSE
    /\ last' = [op |-> "unmount"]
    /\ UNCHANGED <<store, instance, published, applied, fed, nOps>>

\* a render with another brokerUrl: the pending status is rendered, the old
\* effect's cleanup runs, the connect effect runs again, the sync effect runs
\* when the rendered status changed
ChangeBrokerUrl(url) ==
    /\ mounted
    /\ url # brokerUrl
    /\ Len(clients) < MaxClients
    /\ brokerUrl' = url
    /\ status' = pendingStatus
    /\ LET u == Cleanup(clientRef, clients)
           e == ConnectEffect(u.clientRef, u.clients, pendingStatus, instance)
       IN /\ clientRef' = e.clientRef
          /\ clients' = e.clients
          /\ pendingStatus' = e.pendingStatus
    /\ store' = IF pendingStatus # status
                THEN setConnectionStatus(store, pendingStatus).store
                ELSE store
    /\ escaped' = FALSE
    /\ last' = [op |-> "brokerUrl"]
    /\ UNCHANGED <<mounted, reconnectAttempts, instance, published, applied, fed, nOps>>

\* a re-render after setStatus: the closures see the new status, and the
\* provider's effect syncs it to the store
Render ==
    /\ mounted
    /\ pendingStatus # status
    /\ status' = pendingStatus
    /\ store' = setConnectionStatus(store, pendingStatus).store
    /\ escaped' = FALSE
    /\ last' = [op |-> "render"]
    /\ UNCHANGED <<mounted, clientRef, pendingStatus, reconnectAttempts, brokerUrl,
                   instance, clients, published, applied, fed, nOps>>

\* client.on("connect"): status connected, counter reset, topics subscribed
\* at QoS 1, onConnect -> handleConnect
OnConnect(c) ==
    /\ Live(c)
    /\ pendingStatus' = SetStatus(c, "connected")
    /\ reconnectAttempts' = AfterConnect(reconnectAttempts)
    /\ clients' = [clients EXCEPT ![c].subscribed = Subscribe(@, DEFAULT_TOPICS)]
    /\ store' = setConnectionStatus(store, "connected").store
    /\ escaped' = FALSE
    /\ last' = [op |-> "connect", reset |-> reconnectAttempts > 0,
                resubscribed |-> clients[c].subscribed = {} /\ reconnectAttempts > 0]
    /\ UNCHANGED <<mounted, clientRef, status, brokerUrl, instance, published,
                   applied, fed, nOps>>

\* client.on("message"): onMessage -> handleMessage -> processMessage
OnMessage(c, topic, payload) ==
    /\ Live(c)
    /\ \E sub \in clients[c].subscribed : Matches(sub.filter, topic)
    /\ LET r == processMessage(store, topic, payload)
       IN /\ store' = r.store
          /\ escaped' = r.threw
    /\ applied' = AppliedBy(topic, payload)
    /\ last' = [op |-> "message", kind |-> KindOf(topic),
                shape |-> ShapeOf(topic, payload),
                dropped |-> processMessage(store, topic, payload).logged]
    /\ UNCHANGED <<mqttVars, fed, nOps>>

\* client.on("error"): status error, onError -> handleError
OnError(c) ==
    /\ Live(c)
    /\ pendingStatus' = SetStatus(c, "error")
    /\ store' = setConnectionStatus(store, "error").store
    /\ escaped' = FALSE
    /\ last' = [op |-> "error"]
    /\ UNCHANGED <<mounted, clientRef, status, reconnectAttempts, brokerUrl, instance,
                   clients, published, applied, fed, nOps>>

\* client.on("close"): status disconnected, onDisconnect -> handleDisconnect.
\* The transport emits it whenever the connection is lost, and once after
\* end(); the session is clean, so the broker forgets the subscriptions
OnClose(c) ==
    /\ c \in 1..Len(clients)
    /\ ~clients[c].closed
    /\ clients' = [clients EXCEPT ![c].closed = clients[c].ended,
                                  ![c].subscribed = {}]
    /\ pendingStatus' = SetStatus(c, "disconnected")
    /\ store' = handleDisconnect(store).store
    /\ escaped' = FALSE
    /\ last' = [op |-> "close", own |-> mounted /\ clients[c].inst = instance]
    /\ UNCHANGED <<mounted, clientRef, status, reconnectAttempts, brokerUrl, instance,
                   published, applied, fed, nOps>>

\* client.on("reconnect"): one more attempt, status connecting, and
\* client.end() once the count reaches maxReconnectAttempts
OnReconnect(c) ==
    /\ Live(c)
    /\ reconnectAttempts' = reconnectAttempts + 1
    /\ pendingStatus' = SetStatus(c, "connecting")
    /\ clients' = IF LimitReached(reconnectAttempts + 1)
                  THEN [clients EXCEPT ![c] = End(@)]
                  ELSE clients
    /\ escaped' = FALSE
    /\ last' = [op |-> "reconnect"]
    /\ UNCHANGED <<store, mounted, clientRef, status, brokerUrl, instance, published,
                   applied, fed, nOps>>

\* client.on("offline"): status disconnected
OnOffline(c) ==
    /\ Live(c)
    /\ pendingStatus' = SetStatus(c, "disconnected")
    /\ escaped' = FALSE
    /\ last' = [op |-> "offline"]
    /\ UNCHANGED <<store, mounted, clientRef, status, reconnectAttempts, brokerUrl,
                   instance, clients, published, applied, fed, nOps>>

\* sendCommand(robotId, command): publish on the robot's command topic
SendCommand(robotId) ==
    /\ mounted
    /\ Len(published) < MaxPublish
    /\ published' = publish(clientRef, status, published, commands(robotId))
    /\ escaped' = FALSE
    /\ last' = [op |-> "sendCommand", status |-> status]
    /\ UNCHANGED <<store, mounted, clientRef, status, pendingStatus, reconnectAttempts,
                   brokerUrl, instance, clients, applied, fed, nOps>>

\* broadcastCommand(command): publish on the broadcast topic
BroadcastCommand ==
    /\ mounted
    /\ Len(published) < MaxPublish
    /\ published' = publish(clientRef, status, published, COMMANDS_BROADCAST)
    /\ escaped' = FALSE
    /\ last' = [op |-> "broadcastCommand", status |-> status]
    /\ UNCHANGED <<store, mounted, clientRef, status, pendingStatus, reconnectAttempts,
                   brokerUrl, instance, clients, applied, fed, nOps>>

NextConn ==
    \/ Mount
    \/ Unmount
    \/ \E url \in BrokerUrls : ChangeBrokerUrl(url)
    \/ Render
    \/ \E c \in 1..Len(clients) : OnConnect(c)
    \/ \E c \in 1..Len(clients) : \E m \in Deliveries : OnMessage(c, m[1], m[2])
    \/ \E c \in 1..Len(clients) : OnError(c)
    \/ \E c \in 1..Len(clients) : OnClose(c)
    \/ \E c \in 1..Len(clients) : OnReconnect(c)
    \/ \E c \in 1..Len(clients) : OnOffline(c)
    \/ SendCommand("RV-001")
    \/ BroadcastCommand

SpecConn == Init /\ [][NextConn]_vars

\* the transport does emit the close event of a client that was ended
LateClose == \E c \in 1..Len(clients) : clients[c].ended /\ OnClose(c)

SpecConnFair == SpecConn /\ WF_vars(LateClose)

----------------------------------------------------------------------------
(* A long run of alerts: the producer's alerts A1, A2, ... arrive in order  *)
(* on aetheris/alerts, and the operator dismisses or acknowledges a few.    *)

FeedAlert ==
    /\ fed < MaxFeed
    /\ fed' = fed + 1
    /\ LET r == processMessage(store, ALERTS, Json(MqttMessage(AnomalyReport(fed + 1, FALSE))))
       IN /\ store' = r.store
          /\ escaped' = r.threw
    /\ last' = [op |-> "processMessage", kind |-> "alert", shape |-> "wellformed",
                logged |-> FALSE, older |-> FALSE, over |-> FALSE]
    /\ UNCHANGED <<mqttVars, applied, nOps>>

DismissFed(id) ==
    /\ nOps < MaxDismiss
    /\ Apply(dismissAlert(store, id), [op |-> "dismissAlert", id |-> id])
    /\ UNCHANGED <<mqttVars, applied, fed>>

AcknowledgeFed(id) ==
    /\ nOps < MaxDismiss
    /\ Apply(acknowledgeAlert(store, id), [op |-> "acknowledgeAlert", id |-> id])
    /\ UNCHANGED <<mqttVars, applied, fed>>

StoredAlertIds == {store.alerts[i].id : i \in 1..Len(store.alerts)}

NextAlerts ==
    \/ FeedAlert
    \/ \E id \in StoredAlertIds : DismissFed(id)
    \/ \E id \in StoredAlertIds : AcknowledgeFed(id)

SpecAlerts == Init /\ [][NextAlerts]_vars

----------------------------------------------------------------------------
(* Properties of the store and the router *)

\* C1: over every sequence of updateRobot calls, direct or through telemetry
\* messages, the robots map has exactly the keys that were passed (and not
\* removed since), and each entry is the whole state of the latest call applied
\* for its key: a replacement, never a merge with the entry it replaces.
C1_RobotsHoldLastAppliedState == store.robots = applied

\* a telemetry message has just replaced a different entry, beside another robot's
C1_Witness ==
    /\ last.op = "processMessage"
    /\ last.over
    /\ "DR-002" \in DOMAIN store.robots
    /\ "RV-001" \in DOMAIN store.robots

Min(a, b) == IF a < b THEN a ELSE b

\* C2: the alerts sequence never holds more than 50 entries and is ordered
\* newest first; while nothing was dismissed or acknowledged it is exactly the
\* latest 50 alerts fed, so after A1..A51 it is [A51, A50, ..., A2].
C2_AlertsCappedNewestFirst ==
    /\ Len(store.alerts) <= 50
    /\ \A i \in 1..(Len(store.alerts) - 1) :
          store.alerts[i].timestamp > store.alerts[i + 1].timestamp
    /\ nOps = 0 =>
          store.alerts = [i \in 1..Min(fed, 50) |-> AnomalyReport(fed - i + 1, FALSE)]

\* A1..A51 were fed: A51 is first, A2 last, A1 evicted
C2_Witness ==
    /\ fed = 51
    /\ nOps = 0
    /\ Len(store.alerts) = 50
    /\ store.alerts[1].id = "A51"
    /\ store.alerts[50].id = "A2"

RemoveAt(xs, i) == SubSeq(xs, 1, i - 1) \o SubSeq(xs, i + 1, Len(xs))

\* C3: dismissAlert(id) removes exactly the one entry whose id matches and
\* keeps every other entry in its order; with no matching entry the store is
\* unchanged.
C3_DismissRemovesExactlyOne ==
    [][\A id \in AlertIds :
          DismissAlert(id) =>
             IF \E i \in 1..Len(store.alerts) : IdIs(store.alerts[i], id)
             THEN \E i \in 1..Len(store.alerts) :
                     /\ IdIs(store.alerts[i], id)
                     /\ store' = [store EXCEPT !.alerts = RemoveAt(store.alerts, i)]
             ELSE store' = store]_vars

\* C4: a payload that is not JSON is dropped, on a telemetry topic as on any
\* other: the store is unchanged and no exception leaves processMessage.
C4_NotJsonDropped ==
    [][\A topic \in Topics :
          ProcessMessage(topic, NotJson) => store' = store /\ ~escaped']_vars

\* text that is not JSON has just arrived on a telemetry topic, robots known
C4_Witness ==
    /\ last.op = "processMessage"
    /\ last.kind = "telemetry"
    /\ last.shape = "notjson"
    /\ DOMAIN store.robots # {}

\* C5: a payload that parses as JSON but has not the shape of its topic's
\* kind is dropped: no collection of the store changes.
C5_MisshapenDropped ==
    [][\A topic \in Topics : \A payload \in PayloadsOf(KindOf(topic)) :
          (/\ ProcessMessage(topic, payload)
           /\ KindOf(topic) # "other"
           /\ payload.json
           /\ ~WellFormed(topic, payload))
          => store' = store]_vars

\* the collection a kind of message is applied to
OwnCollection(kind) ==
    CASE kind = "telemetry" -> "robots"
      [] kind = "heartbeat" -> "lastHeartbeat"
      [] kind = "alert" -> "alerts"
      [] kind = "environment" -> "environment"

\* C6: a message on a recognised topic changes nothing but the collection of
\* its kind; connectionStatus, selectedRobotId and the other collections stay,
\* and a heartbeat changes no entry of lastHeartbeat but its robot's.
C6_OnlyOwnCollectionChanges ==
    [][(last'.op = "processMessage" /\ last'.kind # "other") =>
          \A m \in MessagesOfKind[last'.kind] :
             ProcessMessage(m[1], m[2])
             => /\ \A f \in (DOMAIN store) \ {OwnCollection(last'.kind)} :
                      store'[f] = store[f]
                /\ (last'.kind = "heartbeat" /\ WellFormed(m[1], m[2]))
                   => /\ DOMAIN store'.lastHeartbeat =
                            (DOMAIN store.lastHeartbeat) \cup {m[2].data.robot_id}
                      /\ \A k \in (DOMAIN store.lastHeartbeat) \ {m[2].data.robot_id} :
                            store'.lastHeartbeat[k] = store.lastHeartbeat[k]]_vars

\* a heartbeat of DR-002 has just arrived, with a robot and another heartbeat stored
C6_Witness ==
    /\ last.op = "processMessage"
    /\ last.kind = "heartbeat"
    /\ last.shape = "wellformed"
    /\ DOMAIN store.lastHeartbeat = {"RV-001", "DR-002"}
    /\ store.lastHeartbeat["DR-002"] = 1000
    /\ DOMAIN store.robots # {}

\* the store mutation a well-formed message of each kind stands for
Direct(s, topic, data) ==
    CASE KindOf(topic) = "telemetry" -> updateRobot(s, data.payload)
      [] KindOf(topic) = "heartbeat" -> updateHeartbeat(s, data.robot_id, data.timestamp)
      [] KindOf(topic) = "alert" -> addAlert(s, data.payload)
      [] KindOf(topic) = "environment" -> updateEnvironment(s, data.payload)

\* C9: each well-formed message on a recognised topic leaves the store as the
\* corresponding mutation, called directly, leaves it; so a sequence of them
\* equals the mutations applied one by one in delivery order.
C9_MessagesAreTheirMutations ==
    [][(last'.op = "processMessage" /\ last'.shape = "wellformed") =>
          \A m \in MessagesOfKind[last'.kind] :
             (WellFormed(m[1], m[2]) /\ ProcessMessage(m[1], m[2]))
             => store' = Direct(store, m[1], m[2].data).store /\ ~escaped']_vars

\* telemetry of RV-001 (battery 87), its heartbeat (5000) and alert A1 were delivered
C9_Witness ==
    /\ nOps = 3
    /\ last.op = "processMessage"
    /\ DOMAIN store.robots = {"RV-001"}
    /\ store.robots["RV-001"] = RobotState("RV-001", 87, 2000)
    /\ DOMAIN store.lastHeartbeat = {"RV-001"}
    /\ store.lastHeartbeat["RV-001"] = 5000
    /\ store.alerts = <<AnomalyReport(1, FALSE)>>

\* C7: the hook's status follows the transport's events. Once the connect
\* effect has started a connection (on mount, on another brokerUrl) the status
\* is connecting; an error event sets it to error; a close event of the
\* mounted hook's own client sets it to disconnected; a connect event sets it
\* to connected and the reconnect-attempt counter to 0, whatever it was.
C7_StatusFollowsTransportEvents ==
    [][/\ last'.op \in {"mount", "brokerUrl"} => pendingStatus' = "connecting"
       /\ last'.op = "error" => pendingStatus' = "error"
       /\ (last'.op = "close" /\ last'.own) => pendingStatus' = "disconnected"
       /\ last'.op = "connect" =>
              pendingStatus' = "connected" /\ reconnectAttempts' = 0]_vars

\* a connect event found a counter above 0 and left it at 0, status connected
C7_Witness ==
    /\ last.op = "connect"
    /\ last.reset
    /\ pendingStatus = "connected"
    /\ reconnectAttempts = 0

LiveClients == {c \in 1..Len(clients) : ~clients[c].ended}

\* C10: with a client in clientRef the connect effect makes no client and
\* leaves the status alone; and at most one client that was not ended exists,
\* the one in clientRef of the mounted hook, across brokerUrl changes and
\* re-mounts.
C10_ConnectIdempotentOneLiveClient ==
    /\ clientRef # 0 =>
           ConnectEffect(clientRef, clients, pendingStatus, instance)
               = [clientRef |-> clientRef, clients |-> clients,
                  pendingStatus |-> pendingStatus]
    /\ Cardinality(LiveClients) <= 1
    /\ \A c \in LiveClients : mounted /\ c = clientRef

\* a second client was made (re-mount or another brokerUrl): the first one
\* is ended, the second is the only live one
C10_Witness ==
    /\ Len(clients) = 2
    /\ clients[1].ended
    /\ LiveClients = {2}
    /\ clientRef = 2

\* C11: fail-stop. A reconnect event that brings the attempt count to the
\* limit, no connect event having reset it, ends the client; and while that
\* ended client is the hook's client no further attempt is counted and the
\* status does not change to connecting or connected.
C11_FailStopAfterLimit ==
    [][/\ (last'.op = "reconnect" /\ reconnectAttempts' >= maxReconnectAttempts)
          => clients'[clientRef'].ended
       /\ (clientRef # 0 /\ clients[clientRef].ended /\ clientRef' = clientRef)
          => /\ reconnectAttempts' = reconnectAttempts
             /\ pendingStatus' \in {pendingStatus, "disconnected", "error"}]_vars

\* the tenth reconnect event in a row ended the client, its close event
\* followed, and the hook stays mounted with status disconnected
C11_Witness ==
    /\ mounted
    /\ clientRef # 0
    /\ clients[clientRef].ended
    /\ reconnectAttempts = maxReconnectAttempts
    /\ last.op = "close"
    /\ pendingStatus = "disconnected"

\* the subscriptions the hook is configured to hold
Wanted == {[filter |-> t, qos |-> 1] : t \in DEFAULT_TOPICS}

\* C12: every connect event, the first as the ones after a reconnect,
\* subscribes every configured filter at QoS 1; a filter already subscribed
\* stays as it is, and no other client's subscriptions change.
C12_ConnectSubscribesAllAtQos1 ==
    [][last'.op = "connect" =>
          /\ clientRef' = clientRef
          /\ clients'[clientRef].subscribed = clients[clientRef].subscribed \cup Wanted
          /\ \A sub \in clients'[clientRef].subscribed : sub.qos = 1
          /\ \A c \in 1..Len(clients) :
                c # clientRef => clients'[c] = clients[c]]_vars

\* a connect event after a reconnect found the subscriptions gone and made
\* them again
C12_Witness ==
    /\ last.op = "connect"
    /\ last.reset
    /\ last.resubscribed
    /\ clients[clientRef].subscribed = Wanted

\* a callback of client c runs
Callback(c) ==
    \/ OnConnect(c)
    \/ \E m \in Deliveries : OnMessage(c, m[1], m[2])
    \/ OnError(c)
    \/ OnClose(c)
    \/ OnReconnect(c)
    \/ OnOffline(c)

\* C13: once a client was ended (unmount, another brokerUrl), none of its
\* callbacks changes the store or the hook's status: what it still emits is
\* discarded.
C13_EndedClientCallbacksDiscarded ==
    [][\A c \in 1..Len(clients) :
          (clients[c].ended /\ Callback(c))
          => store' = store /\ pendingStatus' = pendingStatus]_vars

\* C14, as stated: every client is ended on every exit path and its
\* reference released: a client that is not ended is the mounted hook's
\* client, and clientRef never holds an ended client.
C14_EndedAndReleasedOnEveryExit ==
    \A c \in 1..Len(clients) :
        /\ ~clients[c].ended => (mounted /\ clientRef = c)
        /\ clients[c].ended => clientRef # c

\* C14, as the code has it: every client is ended on every exit path; the
\* reference is released on unmount and on another brokerUrl, but after the
\* reconnect limit clientRef keeps the ended client until the next cleanup.
C14_EndedOnEveryExit ==
    /\ ~mounted => clientRef = 0
    /\ \A c \in 1..Len(clients) :
          /\ ~clients[c].ended => (mounted /\ clientRef = c)
          /\ (clients[c].ended /\ clientRef = c)
             => reconnectAttempts >= maxReconnectAttempts

\* a first client was ended by a cleanup and released, a second one by the
\* reconnect limit and is still in clientRef
C14_Witness ==
    /\ Len(clients) = 2
    /\ clients[1].ended
    /\ clients[2].ended
    /\ clientRef = 2
    /\ last.op = "reconnect"

\* C15: there is one connection status: the connectionStatus in the store is
\* the status the hook holds. Stated here in its weakest form, for the
\* instants at which the mounted hook has rendered the status it was last
\* given; the statement for every instant implies it.
C15_StoreStatusIsHookStatus ==
    (mounted /\ pendingStatus = status) => store.connectionStatus = status

\* C16: every mutation of the store is idempotent: from any store, the
\* operation applied twice with one argument leaves what one application leaves.
C16_MutationsIdempotent ==
    /\ \A state \in RobotStates :
          updateRobot(updateRobot(store, state).store, state).store
              = updateRobot(store, state).store
    /\ \A id \in RobotIds :
          removeRobot(removeRobot(store, id).store, id).store
              = removeRobot(store, id).store
    /\ \A alert \in AnomalyReports :
          addAlert(addAlert(store, alert).store, alert).store
              = addAlert(store, alert).store
    /\ \A id \in AlertIds :
          /\ dismissAlert(dismissAlert(store, id).store, id).store
                 = dismissAlert(store, id).store
          /\ acknowledgeAlert(acknowledgeAlert(store, id).store, id).store
                 = acknowledgeAlert(store, id).store
    /\ \A env \in PipeEnvironments :
          updateEnvironment(updateEnvironment(store, env).store, env).store
              = updateEnvironment(store, env).store
    /\ \A hb \in Heartbeats :
          updateHeartbeat(updateHeartbeat(store, hb.robot_id, hb.timestamp).store,
                          hb.robot_id, hb.timestamp).store
              = updateHeartbeat(store, hb.robot_id, hb.timestamp).store
    /\ \A st \in ConnectionStatuses :
          setConnectionStatus(setConnectionStatus(store, st).store, st).store
              = setConnectionStatus(store, st).store
    /\ \A id \in RobotIds :
          setSelectedRobotId(setSelectedRobotId(store, id).store, id).store
              = setSelectedRobotId(store, id).store

\* C17: a message on a topic outside the four recognised patterns is ignored
\* in silence, whatever its payload: the store is unchanged, nothing is
\* thrown and no error is reported.
C17_UnrecognisedTopicSilentlyIgnored ==
    [][(last'.op = "processMessage" /\ last'.kind = "other")
          => store' = store /\ ~escaped' /\ ~last'.logged]_vars

\* an entry of alerts that is stored as acknowledged
IsAcknowledged(a) == Has(a, "acknowledged") /\ a.acknowledged

\* C18: the acknowledged flag comes from the local operations only: after an
\* inbound message every entry stored as acknowledged was stored so before
\* it, so no alert arrives from the broker already acknowledged.
C18_AcknowledgedOnlyLocally ==
    [][last'.op = "processMessage" =>
          \A i \in 1..Len(store'.alerts) :
             IsAcknowledged(store'.alerts[i])
             => \E j \in 1..Len(store.alerts) : store.alerts[j] = store'.alerts[i]]_vars

\* C19: only removeRobot takes an id out of robots: every other operation,
\* inbound messages and connection status changes included, leaves every id
\* of the map in it.
C19_OnlyRemoveRobotRemoves ==
    [][last'.op # "removeRobot" =>
          (DOMAIN store.robots) \subseteq (DOMAIN store'.robots)]_vars

\* the connection went to error with two robots stored, and both are still there
C19_Witness ==
    /\ last.op = "setConnectionStatus"
    /\ last.status = "error"
    /\ DOMAIN store.robots = {"RV-001", "DR-002"}

\* C20: no conflict resolution by timestamp: after a well-formed telemetry,
\* heartbeat or environment message the entry under its key is what that
\* message carried, whatever the timestamp of the entry it found there, and a
\* duplicate is applied like any other message.
C20_LastAppliedWins ==
    [][(/\ last'.op = "processMessage"
        /\ last'.shape = "wellformed"
        /\ last'.kind \in {"telemetry", "heartbeat", "environment"}) =>
          \A m \in MessagesOfKind[last'.kind] :
             (WellFormed(m[1], m[2]) /\ ProcessMessage(m[1], m[2])) =>
                CASE last'.kind = "telemetry" ->
                        store'.robots[m[2].data.payload.id] = m[2].data.payload
                  [] last'.kind = "heartbeat" ->
                        store'.lastHeartbeat[m[2].data.robot_id] = m[2].data.timestamp
                  [] last'.kind = "environment" ->
                        store'.environment[m[2].data.payload.section_id]
                            = m[2].data.payload]_vars

\* telemetry of RV-001 stamped 1000 has just replaced an entry stamped later
C20_Witness ==
    /\ last.op = "processMessage"
    /\ last.kind = "telemetry"
    /\ last.older
    /\ "RV-001" \in DOMAIN store.robots
    /\ store.robots["RV-001"] = RobotState("RV-001", 20, 1000)

\* the well-formed messages among the deliveries
WellFormedDeliveries == {m \in Deliveries : WellFormed(m[1], m[2])}

\* C21: a message that is dropped touches nothing: the store, the hook's
\* status, counter and client and the transport stay as they were, nothing
\* is thrown into the transport's handler, and each well-formed message
\* delivered next is applied as it would have been without it.
C21_DroppedMessageIsolated ==
    [][(last'.op = "message" /\ last'.dropped) =>
          /\ store' = store
          /\ mqttVars' = mqttVars
          /\ ~escaped'
          /\ \A m \in WellFormedDeliveries :
                processMessage(store', m[1], m[2]) = processMessage(store, m[1], m[2])]_vars

\* a message was just dropped on a connected client, a robot being stored
C21_Witness ==
    /\ last.op = "message"
    /\ last.dropped
    /\ pendingStatus = "connected"
    /\ clientRef # 0
    /\ ~clients[clientRef].ended
    /\ DOMAIN store.robots = {"RV-001"}

\* C22: each reconnect event sets the status to connecting and adds exactly
\* one to the attempt counter, and it ends the client only when the count
\* exceeds maxReconnectAttempts, so that all ten attempts are made.
C22_TerminatedOnlyPastTheLimit ==
    [][last'.op = "reconnect" =>
          /\ pendingStatus' = "connecting"
          /\ reconnectAttempts' = reconnectAttempts + 1
          /\ clients'[clientRef'].ended
                => reconnectAttempts' > maxReconnectAttempts]_vars

\* C23: acknowledgeAlert(id) sets acknowledged on the entry whose id matches
\* and changes nothing else: alerts keeps its length and order, every other
\* field and entry stays, and so does the rest of the store; with no
\* matching entry the store is unchanged.
C23_AcknowledgeSetsOnlyTheFlag ==
    [][\A id \in AlertIds :
          AcknowledgeAlert(id) =>
             /\ Len(store'.alerts) = Len(store.alerts)
             /\ \A i \in 1..Len(store.alerts) :
                   store'.alerts[i] = IF IdIs(store.alerts[i], id)
                                      THEN Acked(store.alerts[i])
                                      ELSE store.alerts[i]
             /\ \A f \in (DOMAIN store) \ {"alerts"} : store'[f] = store[f]]_vars

\* C24: the two statuses converge. With one mount and one client, so that
\* every event so far is an event of the hook's own client, whenever the hook
\* has rendered the status it was last given (no render or sync effect is
\* left to run) the store's connectionStatus is that status.
C24_StatusesConverge ==
    (/\ mounted
     /\ instance = 1
     /\ Len(clients) = 1
     /\ pendingStatus = status)
    => store.connectionStatus = pendingStatus

\* C25: the attempt counter stays within 0..maxReconnectAttempts over every
\* sequence of events and brokerUrl changes, and a connection that was just
\* made (mount, another brokerUrl) starts with the counter at 0.
C25_CounterInRangeAndFresh ==
    [][/\ reconnectAttempts' \in 0..maxReconnectAttempts
       /\ last'.op \in {"mount", "brokerUrl"} => reconnectAttempts' = 0]_vars

\* C26: the ids of the stored alerts are pairwise distinct in every state,
\* also when the broker delivers an alert a second time.
C26_AlertIdsDistinct ==
    \A i \in 1..Len(store.alerts) : \A j \in 1..Len(store.alerts) :
        (i # j /\ Has(store.alerts[i], "id") /\ Has(store.alerts[j], "id"))
        => store.alerts[i].id # store.alerts[j].id

\* the topics of the kinds processMessage handles
HandledTopics == {t \in Topics : KindOf(t) # "other"}

\* C27: the filters a client holds once its connect handler has subscribed
\* cover every topic of a kind the router handles, the environment topics
\* included, so that a reading on aetheris/environment/{section_id} is delivered.
C27_DefaultTopicsCoverRouter ==
    \A c \in 1..Len(clients) :
        clients[c].subscribed # {} =>
            \A t \in HandledTopics :
                \E sub \in clients[c].subscribed : Matches(sub.filter, t)

\* telemetry topics whose tail after the prefix is empty, or has two segments
OddTailTopics ==
    {<<"aetheris", "telemetry", "">>, <<"aetheris", "telemetry", "RV-001", "extra">>}

\* C28: the key a keyed message changes is the last segment of its topic,
\* whatever id its payload carries: every entry of the collection under
\* another key stays as it was; and a topic with an empty or a two-segment
\* tail is not taken for a telemetry topic.
C28_KeyIsTopicTail ==
    [][/\ (/\ last'.op = "processMessage"
           /\ last'.shape = "wellformed"
           /\ last'.kind \in {"telemetry", "heartbeat", "environment"}) =>
             \A m \in MessagesOfKind[last'.kind] :
                (WellFormed(m[1], m[2]) /\ ProcessMessage(m[1], m[2])) =>
                   LET before == store[OwnCollection(last'.kind)]
                       after == store'[OwnCollection(last'.kind)]
                   IN \A k \in ((DOMAIN before) \cup (DOMAIN after)) \ {m[1][3]} :
                         /\ k \in DOMAIN before
                         /\ k \in DOMAIN after
                         /\ after[k] = before[k]
       /\ \A t \in OddTailTopics :
             processMessage(store, t,
                            Json(MqttMessage(RobotState("DR-002", 55, 2000)))).store
                 = store]_vars

\* alerts holds an entry with the id that is not acknowledged
ShowsUnacknowledged(alerts, id) ==
    \E i \in 1..Len(alerts) : IdIs(alerts[i], id) /\ ~IsAcknowledged(alerts[i])

\* C29: acknowledgement is stable: when acknowledgeAlert(id) has just marked
\* the stored alert, an inbound message does not make the store show an
\* entry with that id that is not acknowledged.
C29_AcknowledgementStable ==
    [][(/\ last.op = "acknowledgeAlert"
        /\ \E i \in 1..Len(store.alerts) : IdIs(store.alerts[i], last.id)
        /\ ~ShowsUnacknowledged(store.alerts, last.id)
        /\ last'.op = "processMessage")
          => ~ShowsUnacknowledged(store'.alerts, last.id)]_vars

\* C30: after the provider is unmounted and its client ended, the store's
\* connectionStatus becomes disconnected (unless the provider is mounted
\* again first): it does not stay connected or connecting with no connection.
C30_StoreDisconnectedAfterTeardown ==
    (~mounted) ~> (mounted \/ store.connectionStatus = "disconnected")

\* unmounted while connected, the ended client's close event has arrived and
\* the store shows disconnected
C30_Witness ==
    /\ ~mounted
    /\ Len(clients) = 1
    /\ clients[1].closed
    /\ last.op = "close"
    /\ store.connectionStatus = "disconnected"
    /\ DOMAIN store.robots = {"RV-001"}

============================================================================
